---- MODULE Spec2Model ----
(***************************************************************************)
(* JS185 Todo App: the persistence store TodoPGStore (lib/todo-pg-store.js) *)
(* over the tables of sql/schema.sql, called by concurrent requests.        *)
(*                                                                          *)
(* A request is a process p.  Every `await query(...)` is one step: the     *)
(* statement executes atomically in the database (each statement is its own *)
(* autocommit transaction, since no store operation ever issues BEGIN, see  *)
(* WithTransactionFlattens) and the JavaScript continuation runs up to the  *)
(* next query.  Steps of different requests interleave freely.              *)
(***************************************************************************)
EXTENDS Integers, Sequences, FiniteSets, TLC

(* ------------------------------ bounds -------------------------------- *)
\* The cap on the serial sequence of todos.id.
MaxTodoID == 2

\* Sample values of the other domains.
Users == {1, 2}
ListIDs == {1, 2}
TodoIDs == 1..MaxTodoID

\* List titles that pass the form validation; "Work" and "work" differ only
\* in case.
Titles == {"Work", "work", "Home"}

\* Todo titles that pass the form validation.
TodoTitles == {"Milk"}

\* Todo titles whose order depends on the case: "Milk" sorts before "eggs"
\* byte by byte and after it when the case is ignored.
SortTodoTitles == {"Milk", "eggs"}

\* The clients the pool may create (one request needs at most three at once).
Conns == {1, 2, 3}

\* No client.
NoConn == 0

\* JavaScript `undefined` given as the listID argument of findTodo.
NoListID == 0

(* ------------------------------ state --------------------------------- *)
VARIABLES
  todolists,  \* table todolists: rows [id, title, user_id]
  todos,      \* table todos: rows [id, title, done, todolist_id]
  todosSeq,   \* next value of the serial sequence todos_id_seq
  user,       \* user[p]: the signed-in user of request p (req.session.user)
  pc,         \* pc[p]: "idle", the query request p awaits, or "done"
  call,       \* call[p]: the store operation in progress and its arguments
  log,        \* log[p]: the statements the operation has issued so far
  ret,        \* ret[p]: how the operation ended (returned value or thrown error)
  pool,       \* the pg Pool behind query(): its clients and who holds them
  form,       \* form[p]: the title field of the body request p submitted
  heap        \* the objects of the in-memory classes (Todo, TodoList, ...)

vars == <<todolists, todos, todosSeq, user, pc, call, log, ret, pool, form, heap>>

(* ------------------------- schema (schema.sql) ------------------------ *)
\* SQL NULL in an integer column of a row that is about to be inserted.
NULL == 0

\* PRIMARY KEY (id) and UNIQUE (title, user_id) of todolists.
TodolistsConstraints(tl) ==
  /\ \A a, b \in tl : a.id = b.id => a = b
  /\ \A a, b \in tl : (a.title = b.title /\ a.user_id = b.user_id) => a = b

\* PRIMARY KEY (id) of todos and REFERENCES todolists (id).
TodosConstraints(td, tl) ==
  /\ \A a, b \in td : a.id = b.id => a = b
  /\ \A t \in td : \E l \in tl : l.id = t.todolist_id

\* user_id integer NOT NULL: checked when the row is formed, before any index.
ViolatesNotNull(row) == row.user_id = NULL

\* UNIQUE (title, user_id): another row holds the same pair.  (The mutant
\* counts the row itself.)
ViolatesUniqueMutant(tl, row) ==
  \E l \in tl : l.title = row.title /\ l.user_id = row.user_id
ViolatesUnique(tl, row) ==
  \E l \in tl : l.id # row.id /\ l.title = row.title /\ l.user_id = row.user_id

\* REFERENCES todolists (id): the referenced list does not exist.  (The
\* mutant is the column without the constraint.)
ViolatesForeignKeyMutant(tl, listID) == FALSE
ViolatesForeignKey(tl, listID) == ~ \E l \in tl : l.id = listID

\* ON DELETE CASCADE: the todos left once the lists `gone` are deleted.
CascadeDelete(td, gone) == {t \in td : t.todolist_id \notin gone}

(* --------------------------- SQL expressions -------------------------- *)
\* lower(title)
LowerMutant(t) == t
Lower(t) ==
  IF t = "Work" THEN "work"
  ELSE IF t = "Home" THEN "home"
  ELSE IF t = "Milk" THEN "milk"
  ELSE t

\* The place of a string in the collation order of its column (upper-case
\* letters before lower-case ones, as in the C collation; the statements
\* only ever compare lower-cased strings).
CollateRank(t) ==
  IF t = "Home" THEN 1
  ELSE IF t = "Milk" THEN 2
  ELSE IF t = "Work" THEN 3
  ELSE IF t = "eggs" THEN 4
  ELSE IF t = "home" THEN 5
  ELSE IF t = "milk" THEN 6
  ELSE 7

\* boolean::integer
BoolToInt(b) == IF b THEN 1 ELSE 0

\* tl LEFT JOIN todos t ON tl.id = t.todolist_id, for one list: a joined row
\* holds the todo in a set, which is empty in the null-extended row.
LeftJoinTodos(l, td) ==
  LET match == {t \in td : t.todolist_id = l.id}
  IN  IF match = {} THEN {[l |-> l, t |-> {}]}
      ELSE {[l |-> l, t |-> {t}] : t \in match}

\* count(t.id): the joined rows whose t.id is not NULL.  (CountMutant is
\* count(*).)
CountMutant(rows) == Cardinality(rows)
Count(rows) == Cardinality({r \in rows : r.t # {}})

\* sum(t.done::integer): {} is SQL NULL (no row with a non-NULL input).
RECURSIVE SumInts(_)
SumInts(rows) ==
  IF rows = {} THEN 0
  ELSE LET r == CHOOSE x \in rows : TRUE
       IN  (IF r.t = {} THEN 0 ELSE BoolToInt((CHOOSE t \in r.t : TRUE).done))
           + SumInts(rows \ {r})

SumDone(rows) ==
  IF \A r \in rows : r.t = {} THEN {} ELSE {SumInts(rows)}

\* coalesce(x, d)
Coalesce(x, d) == IF x = {} THEN d ELSE CHOOSE v \in x : TRUE

\* One row of the metadata subquery (GROUP BY tl.id) with the outer
\* "length" > 0 AND "countDone" = "length" AS done.
ListMetadata(l, td) ==
  LET rows == LeftJoinTodos(l, td)
      len == Count(rows)
      cnt == Coalesce(SumDone(rows), 0)
  IN  [id |-> l.id, title |-> l.title, length |-> len, countDone |-> cnt,
       done |-> (len > 0 /\ cnt = len)]

\* ORDER BY done, lower(title): every order of `rows` the clause allows (rows
\* that tie may come in any order).
OrderByDoneTitle(rows) ==
  LET n == Cardinality(rows)
      Before(a, b) ==
        \/ BoolToInt(a.done) < BoolToInt(b.done)
        \/ a.done = b.done
             /\ CollateRank(Lower(a.title)) <= CollateRank(Lower(b.title))
  IN  {s \in [1..n -> rows] :
         /\ \A i, j \in 1..n : i # j => s[i] # s[j]
         /\ \A i, j \in 1..n : i < j => Before(s[i], s[j])}

\* A row of todos joined with its list: the TodoQueryResult.
TodoResult(t, tl) ==
  LET l == CHOOSE x \in tl : x.id = t.todolist_id
  IN  [id |-> t.id, title |-> t.title, done |-> t.done,
       listID |-> l.id, listTitle |-> l.title]

(* ------------------------- JavaScript values -------------------------- *)
\* How a store operation ends.  kind: "none" (not ended), "return" or
\* "throw".  tag: for a returned value "true", "false", "undefined",
\* "Result" (the pg Result object), "todo", "list" or "lists"; for a thrown
\* error its code or, for an error of the database driver or the runtime, its
\* kind.  row and rows carry the returned data.
Outcome(kind, tag, row, rows) ==
  [kind |-> kind, tag |-> tag, row |-> row, rows |-> rows]

NoOutcome == Outcome("none", "", {}, <<>>)
Returns(tag) == Outcome("return", tag, {}, <<>>)
ReturnsRow(tag, row, rows) == Outcome("return", tag, {row}, rows)
Throws(tag) == Outcome("throw", tag, {}, <<>>)

ERROR_CODE_INVALID_LIST_ID == "InvalidListID"
ERROR_CODE_INVALID_TODO_ID == "InvalidTodoID"
ERROR_CODE_NON_UNIQUE_LIST_TITLE == "NonUniqueListTitle"

\* Errors the store does not translate.
NotNullViolation == "NotNullViolation"
UniqueViolation == "UniqueViolation"
TypeError == "TypeError"

\* #err(err, options): throws the error when options.throw, else returns it to
\* the caller, which goes on and ends as `otherwise`.
Err(code, throw, otherwise) == IF throw THEN Throws(code) ELSE otherwise

ErrInvalidListID(throw, otherwise) ==
  Err(ERROR_CODE_INVALID_LIST_ID, throw, otherwise)

ErrInvalidTodoID(throw, otherwise) ==
  Err(ERROR_CODE_INVALID_TODO_ID, throw, otherwise)

ErrNonUniqueListTitle(throw, otherwise) ==
  Err(ERROR_CODE_NON_UNIQUE_LIST_TITLE, throw, otherwise)

(* ------------------------- the pool of db.js -------------------------- *)
\* query(text, params) is pool.query(text, params): the pool hands the
\* statement to a client nobody holds, the one released last if there is one
\* and a new one otherwise, and takes the client back when the statement has
\* ended.  A chain of awaited statements thus keeps to one client, since the
\* client it releases is the first the next statement finds.  BEGIN, COMMIT
\* and ROLLBACK act on the session of the client they run on.

\* A session outside a transaction.
Closed == [open |-> FALSE, dirty |-> FALSE, todolists |-> {}, todos |-> {}]

\* createPool(): no client yet.  conn[c] is the session of client c, idle the
\* released clients (the last released last), probes the clients running an
\* isTrans statement nobody awaits, held[p] the client of p's current chain of
\* statements and ran[p] the client p's latest statement ran on.
NewPool(P) ==
  [conn |-> [c \in Conns |-> Closed], idle |-> <<>>, probes |-> {},
   held |-> [p \in P |-> NoConn], ran |-> [p \in P |-> NoConn]]

\* The clients the pool has created.
Created(q) ==
  ({q.idle[i] : i \in DOMAIN q.idle} \cup q.probes
     \cup {q.held[p] : p \in DOMAIN q.held}) \ {NoConn}

\* The pool after it has picked the client for a statement of p that follows
\* no awaited statement of p's chain.
Checkout(q, p) ==
  IF q.idle # <<>>
  THEN [q EXCEPT !.held[p] = q.idle[Len(q.idle)],
                 !.idle = SubSeq(q.idle, 1, Len(q.idle) - 1)]
  ELSE [q EXCEPT !.held[p] =
          CHOOSE c \in Conns \ Created(q) : \A d \in Conns \ Created(q) : c <= d]

\* The client of p's next statement: the one its chain keeps, else a pick.
Connect(q, p) == IF q.held[p] # NoConn THEN q ELSE Checkout(q, p)

\* p's chain of statements has ended: its client is released for good.
Release(q, p) ==
  [q EXCEPT !.idle = Append(q.idle, q.held[p]), !.held[p] = NoConn]

\* Tables as the statements of client c see them: a transaction that has
\* written sees its own writes, every other statement the committed rows.
View(q, c, tl, td) ==
  IF q.conn[c].open /\ q.conn[c].dirty
  THEN [todolists |-> q.conn[c].todolists, todos |-> q.conn[c].todos]
  ELSE [todolists |-> tl, todos |-> td]

(* ------------------------------ requests ------------------------------ *)
Call(op, listID, todoID, title, throw) ==
  [op |-> op, listID |-> listID, todoID |-> todoID, title |-> title,
   throw |-> throw]

NoCall == Call("", 0, 0, "", FALSE)

TypeOK ==
  /\ TodolistsConstraints(todolists)
  /\ TodosConstraints(todos, todolists)
  /\ todosSeq \in 1..(MaxTodoID + 1)
  /\ \A t \in todos : t.id < todosSeq
  /\ user \in [DOMAIN pc -> Users]
  /\ \A p \in DOMAIN pc :
       pc[p] \in {"idle", "listExists", "todoExists", "stmt", "done",
                  "paramTodoID", "handler", "error", "responded", "finished"}
  /\ pool.held \in [DOMAIN pc -> Conns \cup {NoConn}]
  /\ pool.probes \subseteq Conns
  /\ \A i, j \in DOMAIN pool.idle :
       /\ pool.idle[i] \in Conns \ pool.probes
       /\ i # j => pool.idle[i] # pool.idle[j]

\* The database a request may find: any content the schema admits.
Database(todoTitles) ==
  /\ \E S \in SUBSET ListIDs :
       \E f \in [S -> [title : Titles, user_id : Users]] :
         todolists = {[id |-> i, title |-> f[i].title, user_id |-> f[i].user_id]
                        : i \in S}
  /\ TodolistsConstraints(todolists)
  /\ todosSeq \in 1..(MaxTodoID + 1)
  /\ \E S \in SUBSET (1..(todosSeq - 1)) :
       \E f \in [S -> [title : todoTitles, done : BOOLEAN, todolist_id : ListIDs]] :
         todos = {[id |-> i, title |-> f[i].title, done |-> f[i].done,
                   todolist_id |-> f[i].todolist_id] : i \in S}
  /\ TodosConstraints(todos, todolists)

InitDatabase == Database(TodoTitles)

\* The requests P, each of a signed-in user, none of which has called the
\* store yet.
InitCalls(P) ==
  /\ user \in [P -> Users]
  /\ pc = [p \in P |-> "idle"]
  /\ call = [p \in P |-> NoCall]
  /\ log = [p \in P |-> <<>>]
  /\ ret = [p \in P |-> NoOutcome]
  /\ pool = NewPool(P)

\* No object of the in-memory classes exists.
NoHeap == [currentID |-> 0]

\* The requests P call the store themselves: they submit no form and create
\* no in-memory object.
InitRequests(P) ==
  /\ InitCalls(P)
  /\ form = [p \in P |-> ""]
  /\ heap = NoHeap

\* One request at a time.
Init == InitDatabase /\ InitRequests({1})

\* The operation of request p ends: its promise settles with outcome r.
Settle(p, c, stmts, r) ==
  /\ pc' = [pc EXCEPT ![p] = "done"]
  /\ call' = [call EXCEPT ![p] = c]
  /\ log' = [log EXCEPT ![p] = stmts]
  /\ ret' = [ret EXCEPT ![p] = r]
  /\ UNCHANGED <<pool, form, heap>>

\* The operation of request p awaits its next query.
Await(p, c, stmts, next) ==
  /\ pc' = [pc EXCEPT ![p] = next]
  /\ call' = [call EXCEPT ![p] = c]
  /\ log' = [log EXCEPT ![p] = stmts]
  /\ ret' = ret
  /\ UNCHANGED <<pool, form, heap>>

\* The caller has taken the outcome; the request may call the store again.
Return(p) ==
  /\ pc[p] = "done"
  /\ pc' = [pc EXCEPT ![p] = "idle"]
  /\ call' = [call EXCEPT ![p] = NoCall]
  /\ log' = [log EXCEPT ![p] = <<>>]
  /\ ret' = [ret EXCEPT ![p] = NoOutcome]
  /\ UNCHANGED <<todolists, todos, todosSeq, user, pool, form, heap>>

(* ------------------- single-statement store operations ---------------- *)
\* sortedTodoLists(): the metadata of every row of todolists, in an order the
\* ORDER BY allows.  The statement has no WHERE clause.
SortedTodoListsRows(tl, td) == {ListMetadata(l, td) : l \in tl}

SortedTodoLists(p) ==
  /\ pc[p] = "idle"
  /\ \E s \in OrderByDoneTitle(SortedTodoListsRows(todolists, todos)) :
       Settle(p, Call("sortedTodoLists", 0, 0, "", FALSE),
              <<"SELECT lists">>, Outcome("return", "lists", {}, s))
  /\ UNCHANGED <<todolists, todos, todosSeq, user>>

\* How sortedTodoList(listID, options) may end.  With no row and
\* options.throw false the method goes on to read queryRows[0].listLength of
\* undefined.
SortedTodoListOutcomes(tl, td, listID, throw) ==
  LET found == {l \in tl : l.id = listID}
  IN  IF found = {}
      THEN {ErrInvalidListID(throw, Throws(TypeError))}
      ELSE LET l == CHOOSE x \in found : TRUE
               own == {t \in td : t.todolist_id = listID}
           IN  {ReturnsRow("list", ListMetadata(l, td), s) :
                  s \in OrderByDoneTitle({TodoResult(t, tl) : t \in own})}

\* sortedTodoList(listID, options)
SortedTodoList(p, listID, throw) ==
  /\ pc[p] = "idle"
  /\ \E r \in SortedTodoListOutcomes(todolists, todos, listID, throw) :
       Settle(p, Call("sortedTodoList", listID, 0, "", throw),
              <<"SELECT list">>, r)
  /\ UNCHANGED <<todolists, todos, todosSeq, user>>

\* findList(listID, options): returns this.sortedTodoList(listID, options).
FindList(p, listID, throw) ==
  /\ pc[p] = "idle"
  /\ \E r \in SortedTodoListOutcomes(todolists, todos, listID, throw) :
       Settle(p, Call("findList", listID, 0, "", throw), <<"SELECT list">>, r)
  /\ UNCHANGED <<todolists, todos, todosSeq, user>>

\* listTitleExists(title): SELECT ... FROM todolists WHERE title = $1.
TitleRows(tl, title) == {l \in tl : l.title = title}

ListTitleExists(p, title) ==
  /\ pc[p] = "idle"
  /\ Settle(p, Call("listTitleExists", 0, 0, title, FALSE), <<"SELECT title">>,
            Returns(IF TitleRows(todolists, title) # {} THEN "true" ELSE "false"))
  /\ UNCHANGED <<todolists, todos, todosSeq, user>>

\* The row INSERT INTO todolists (title) VALUES ($1) forms: user_id is not
\* given and has no default.  (The id is the serial's next value; any fresh id
\* behaves alike.)
AddListRow(tl, title) ==
  [id |-> CHOOSE i \in 1..(Cardinality(tl) + 1) : \A l \in tl : l.id # i,
   title |-> title, user_id |-> NULL]

\* addList(title, options)
AddList(p, title, throw) ==
  /\ pc[p] = "idle"
  /\ LET c == Call("addList", 0, 0, title, throw)
         row == AddListRow(todolists, title)
     IN  IF ViolatesNotNull(row)
         THEN /\ Settle(p, c, <<"INSERT list">>, Throws(NotNullViolation))
              /\ UNCHANGED todolists
         ELSE IF ViolatesUnique(todolists, row)
         THEN /\ Settle(p, c, <<"INSERT list">>,
                        ErrNonUniqueListTitle(throw, Returns("false")))
              /\ UNCHANGED todolists
         ELSE /\ Settle(p, c, <<"INSERT list">>, Returns("true"))
              /\ todolists' = todolists \cup {row}
  /\ UNCHANGED <<todos, todosSeq, user>>

\* setListTitle(listID, title, options): UPDATE todolists SET title = $2
\* WHERE id = $1.  After #errNonUniqueListTitle returns, the catch block
\* re-throws the driver's error.
SetListTitle(p, listID, title, throw) ==
  /\ pc[p] = "idle"
  /\ LET c == Call("setListTitle", listID, 0, title, throw)
         found == {l \in todolists : l.id = listID}
     IN  IF found = {}
         THEN /\ Settle(p, c, <<"UPDATE list">>,
                        ErrInvalidListID(throw, Returns("Result")))
              /\ UNCHANGED todolists
         ELSE LET l == CHOOSE x \in found : TRUE
                  new == [l EXCEPT !.title = title]
              IN  IF ViolatesUnique(todolists, new)
                  THEN /\ Settle(p, c, <<"UPDATE list">>,
                                 ErrNonUniqueListTitle(throw, Throws(UniqueViolation)))
                       /\ UNCHANGED todolists
                  ELSE /\ Settle(p, c, <<"UPDATE list">>, Returns("Result"))
                       /\ todolists' = (todolists \ {l}) \cup {new}
  /\ UNCHANGED <<todos, todosSeq, user>>

\* addTodo(listID, todoTitle, options): INSERT INTO todos (title, todolist_id).
\* The serial's value is taken whether or not the row is accepted.
AddTodo(p, listID, title, throw) ==
  /\ pc[p] = "idle"
  /\ todosSeq <= MaxTodoID
  /\ todosSeq' = todosSeq + 1
  /\ LET c == Call("addTodo", listID, 0, title, throw)
     IN  IF ViolatesForeignKey(todolists, listID)
         THEN /\ Settle(p, c, <<"INSERT todo">>,
                        ErrInvalidListID(throw, Returns("false")))
              /\ UNCHANGED todos
         ELSE /\ Settle(p, c, <<"INSERT todo">>, Returns("true"))
              /\ todos' = todos \cup {[id |-> todosSeq, title |-> title,
                                       done |-> FALSE, todolist_id |-> listID]}
  /\ UNCHANGED <<todolists, user>>

\* markAllDone(listID, options): UPDATE todos SET done = TRUE
\* WHERE todolist_id = $1; rowCount is the number of the list's todos.
MarkAllDone(p, listID, throw) ==
  /\ pc[p] = "idle"
  /\ LET c == Call("markAllDone", listID, 0, "", throw)
         own == {t \in todos : t.todolist_id = listID}
     IN  IF Cardinality(own) = 0
         THEN /\ Settle(p, c, <<"UPDATE todos">>,
                        ErrInvalidListID(throw, Returns("false")))
              /\ UNCHANGED todos
         ELSE /\ Settle(p, c, <<"UPDATE todos">>, Returns("true"))
              /\ todos' = (todos \ own) \cup {[t EXCEPT !.done = TRUE] : t \in own}
  /\ UNCHANGED <<todolists, todosSeq, user>>

\* A JavaScript value read from a nullable boolean column.
JsBool(s) == IF s = {} THEN "null" ELSE IF (CHOOSE b \in s : TRUE) THEN "true" ELSE "false"

\* The rows of removeList's statement: removed_todos RIGHT JOIN list_metadata,
\* one null-extended row for a list without todos.
RemovedRows(l, td) ==
  LET m == ListMetadata(l, td)
  IN  {[id |-> IF r.t = {} THEN NULL ELSE (CHOOSE t \in r.t : TRUE).id,
        title |-> IF r.t = {} THEN "" ELSE (CHOOSE t \in r.t : TRUE).title,
        done |-> IF r.t = {} THEN FALSE ELSE (CHOOSE t \in r.t : TRUE).done,
        isNull |-> r.t = {},
        listID |-> l.id, listTitle |-> l.title,
        listLength |-> m.length, countDone |-> m.countDone]
       : r \in LeftJoinTodos(l, td)}

\* The removed_todos CTE: DELETE FROM todos WHERE todolist_id = $1.
RemovedTodosMutant(td, listID) == td
RemovedTodos(td, listID) == {t \in td : t.todolist_id = listID}

\* removeList(listID, options): one statement deletes the list's todos and the
\* list and selects what it deleted.  `done` is read from the first row's
\* done column, which is the todo's.
RemoveList(p, listID, throw) ==
  /\ pc[p] = "idle"
  /\ LET c == Call("removeList", listID, 0, "", throw)
         found == {l \in todolists : l.id = listID}
     IN  IF found = {}
         THEN /\ Settle(p, c, <<"DELETE list">>,
                        ErrInvalidListID(throw, Returns("undefined")))
              /\ UNCHANGED <<todolists, todos>>
         ELSE LET l == CHOOSE x \in found : TRUE
              IN  /\ \E s \in OrderByDoneTitle(RemovedRows(l, todos)) :
                       Settle(p, c, <<"DELETE list">>,
                         ReturnsRow("list",
                           [id |-> s[1].listID, title |-> s[1].listTitle,
                            length |-> s[1].listLength,
                            countDone |-> s[1].countDone,
                            done |-> JsBool(IF s[1].isNull THEN {} ELSE {s[1].done})],
                           IF s[1].listLength = 0 THEN <<>> ELSE s))
                  /\ todolists' = todolists \ {l}
                  /\ todos' = CascadeDelete(todos \ RemovedTodos(todos, listID),
                                            {l.id})
  /\ UNCHANGED <<todosSeq, user>>

(* -------------------- multi-statement store operations ---------------- *)
\* withTransaction(callback): `if (this.#isInTransaction()) return callback();`
\* calls the async probe without awaiting it and tests the Promise it returns,
\* which is truthy whatever the probe answers.  So the method always runs the
\* callback at once: the probe is the only statement it issues itself, and its
\* BEGIN, COMMIT and ROLLBACK (lines 189-198) are never reached.  The result
\* is the statements issued when the callback's first query is awaited.
WithTransaction(first) == <<"SELECT isTrans", first>>

\* findTodo(todoID, listID, options); listID may be undefined.
FindTodo(p, todoID, listID, throw) ==
  /\ pc[p] = "idle"
  /\ IF listID # NoListID
     THEN Await(p, Call("findTodo", listID, todoID, "", throw),
                WithTransaction("SELECT listExists"), "listExists")
     ELSE Await(p, Call("findTodo", listID, todoID, "", throw),
                WithTransaction("SELECT todoExists"), "todoExists")
  /\ UNCHANGED <<todolists, todos, todosSeq, user>>

\* toggleDone(todoID, listID, options)
ToggleDone(p, todoID, listID, throw) ==
  /\ pc[p] = "idle"
  /\ Await(p, Call("toggleDone", listID, todoID, "", throw),
           WithTransaction("SELECT listExists"), "listExists")
  /\ UNCHANGED <<todolists, todos, todosSeq, user>>

\* removeTodo(todoID, listID, options)
RemoveTodo(p, todoID, listID, throw) ==
  /\ pc[p] = "idle"
  /\ Await(p, Call("removeTodo", listID, todoID, "", throw),
           WithTransaction("SELECT listExists"), "listExists")
  /\ UNCHANGED <<todolists, todos, todosSeq, user>>

\* The text of the operation's last statement.
FinalStatement(op) ==
  IF op = "toggleDone" THEN "UPDATE todo"
  ELSE IF op = "removeTodo" THEN "DELETE todo" ELSE "SELECT todo"

\* listExists(listID, options), awaited inside the callback.
ListExists(p) ==
  /\ pc[p] = "listExists"
  /\ IF \E l \in todolists : l.id = call[p].listID
     THEN Await(p, call[p], Append(log[p], "SELECT todoExists"), "todoExists")
     ELSE Settle(p, call[p], log[p],
                 ErrInvalidListID(call[p].throw, Returns("undefined")))
  /\ UNCHANGED <<todolists, todos, todosSeq, user>>

\* todoExists(todoID, options), awaited inside the callback: SELECT id FROM
\* todos WHERE id = $1.
TodoExists(p) ==
  /\ pc[p] = "todoExists"
  /\ IF \E t \in todos : t.id = call[p].todoID
     THEN Await(p, call[p], Append(log[p], FinalStatement(call[p].op)), "stmt")
     ELSE Settle(p, call[p], log[p],
                 ErrInvalidTodoID(call[p].throw, Returns("undefined")))
  /\ UNCHANGED <<todolists, todos, todosSeq, user>>

\* The rows the last statement's WHERE clause selects: id = $1 AND
\* todolist_id = $2 (findTodo without listID: id = $1).
Matched(td, c) ==
  {t \in td : /\ t.id = c.todoID
              /\ (c.listID # NoListID => t.todolist_id = c.listID)}

\* rows[0] of the last statement: the row, or undefined.
FirstRow(rows, tl) ==
  IF rows = {} THEN Returns("undefined")
  ELSE ReturnsRow("todo", TodoResult(CHOOSE t \in rows : TRUE, tl), <<>>)

\* findTodo's SELECT.
FindTodoStmt(p) ==
  /\ pc[p] = "stmt" /\ call[p].op = "findTodo"
  /\ Settle(p, call[p], log[p], FirstRow(Matched(todos, call[p]), todolists))
  /\ UNCHANGED <<todolists, todos, todosSeq, user>>

\* toggleDone's UPDATE todos SET done = NOT done ... RETURNING.
ToggledMutant(rows) == {[t EXCEPT !.done = TRUE] : t \in rows}
Toggled(rows) == {[t EXCEPT !.done = ~t.done] : t \in rows}

ToggleDoneStmt(p) ==
  /\ pc[p] = "stmt" /\ call[p].op = "toggleDone"
  /\ LET hit == Matched(todos, call[p])
     IN  /\ todos' = (todos \ hit) \cup Toggled(hit)
         /\ Settle(p, call[p], log[p], FirstRow(Toggled(hit), todolists))
  /\ UNCHANGED <<todolists, todosSeq, user>>

\* removeTodo's DELETE FROM todos ... RETURNING.
RemoveTodoStmt(p) ==
  /\ pc[p] = "stmt" /\ call[p].op = "removeTodo"
  /\ LET hit == Matched(todos, call[p])
     IN  /\ todos' = todos \ hit
         /\ Settle(p, call[p], log[p], FirstRow(hit, todolists))
  /\ UNCHANGED <<todolists, todosSeq, user>>

(* --------------------------- specification ---------------------------- *)
\* Any request calls any operation of the store with any arguments.
Next ==
  \/ \E p \in DOMAIN pc : SortedTodoLists(p)
  \/ \E p \in DOMAIN pc, l \in ListIDs, th \in BOOLEAN : SortedTodoList(p, l, th)
  \/ \E p \in DOMAIN pc, l \in ListIDs, th \in BOOLEAN : FindList(p, l, th)
  \/ \E p \in DOMAIN pc, t \in Titles : ListTitleExists(p, t)
  \/ \E p \in DOMAIN pc, t \in Titles, th \in BOOLEAN : AddList(p, t, th)
  \/ \E p \in DOMAIN pc, l \in ListIDs, t \in Titles, th \in BOOLEAN :
       SetListTitle(p, l, t, th)
  \/ \E p \in DOMAIN pc, l \in ListIDs, t \in TodoTitles, th \in BOOLEAN :
       AddTodo(p, l, t, th)
  \/ \E p \in DOMAIN pc, l \in ListIDs, th \in BOOLEAN : MarkAllDone(p, l, th)
  \/ \E p \in DOMAIN pc, l \in ListIDs, th \in BOOLEAN : RemoveList(p, l, th)
  \/ \E p \in DOMAIN pc, t \in TodoIDs, l \in ListIDs \cup {NoListID},
        th \in BOOLEAN : FindTodo(p, t, l, th)
  \/ \E p \in DOMAIN pc, t \in TodoIDs, l \in ListIDs, th \in BOOLEAN :
       ToggleDone(p, t, l, th)
  \/ \E p \in DOMAIN pc, t \in TodoIDs, l \in ListIDs, th \in BOOLEAN :
       RemoveTodo(p, t, l, th)
  \/ \E p \in DOMAIN pc : ListExists(p)
  \/ \E p \in DOMAIN pc : TodoExists(p)
  \/ \E p \in DOMAIN pc : FindTodoStmt(p)
  \/ \E p \in DOMAIN pc : ToggleDoneStmt(p)
  \/ \E p \in DOMAIN pc : RemoveTodoStmt(p)
  \/ \E p \in DOMAIN pc : Return(p)

Spec == Init /\ [][Next]_vars

\* Two concurrent requests of one user, who owns every list, whose operations
\* address the same list title, the same list and the same todo.
RaceTitle == "Work"
RaceList == CHOOSE l \in ListIDs : \A m \in ListIDs : l <= m
RaceTodo == CHOOSE t \in TodoIDs : \A u \in TodoIDs : t <= u

InitRace ==
  /\ InitDatabase
  /\ InitRequests({1, 2})
  /\ user[1] = user[2]
  /\ \A l \in todolists : l.user_id = user[1]

NextRace ==
  \/ \E p \in DOMAIN pc : ListTitleExists(p, RaceTitle)
  \/ \E p \in DOMAIN pc, th \in BOOLEAN : AddList(p, RaceTitle, th)
  \/ \E p \in DOMAIN pc, t \in TodoTitles, th \in BOOLEAN :
       AddTodo(p, RaceList, t, th)
  \/ \E p \in DOMAIN pc, th \in BOOLEAN : RemoveList(p, RaceList, th)
  \/ \E p \in DOMAIN pc, th \in BOOLEAN : ToggleDone(p, RaceTodo, RaceList, th)
  \/ \E p \in DOMAIN pc, th \in BOOLEAN : RemoveTodo(p, RaceTodo, RaceList, th)
  \/ \E p \in DOMAIN pc : ListExists(p)
  \/ \E p \in DOMAIN pc : TodoExists(p)
  \/ \E p \in DOMAIN pc : ToggleDoneStmt(p)
  \/ \E p \in DOMAIN pc : RemoveTodoStmt(p)
  \/ \E p \in DOMAIN pc : Return(p)

SpecRace == InitRace /\ [][NextRace]_vars

(* ------------------------- the sorting operations --------------------- *)
\* One request that reads or removes lists of a database whose todo titles
\* differ in case.
InitSort == Database(SortTodoTitles) /\ InitRequests({1})

NextSort ==
  \/ \E p \in DOMAIN pc : SortedTodoLists(p)
  \/ \E p \in DOMAIN pc, l \in ListIDs, th \in BOOLEAN : SortedTodoList(p, l, th)
  \/ \E p \in DOMAIN pc, l \in ListIDs, th \in BOOLEAN : RemoveList(p, l, th)
  \/ \E p \in DOMAIN pc : Return(p)

SpecSort == InitSort /\ [][NextSort]_vars

(* --------------------------- the title forms -------------------------- *)
\* isLength({ max: 100 })
MaxTitleLength == 100

\* A string of n letters.
RECURSIVE Letters(_)
Letters(n) == IF n = 0 THEN "" ELSE "a" \o Letters(n - 1)

\* Titles a form may submit: empty, blank, padded with blanks, the title of
\* a stored list, and titles at and above the length limit.
RawTitles ==
  {"", " ", " Milk ", "Work", Letters(MaxTitleLength),
   Letters(MaxTitleLength + 1)}

\* trim(): the string without its leading and trailing whitespace.
RECURSIVE TrimStart(_)
TrimStart(t) ==
  IF Len(t) > 0 /\ SubSeq(t, 1, 1) = " " THEN TrimStart(SubSeq(t, 2, Len(t)))
  ELSE t

RECURSIVE TrimEnd(_)
TrimEnd(t) ==
  IF Len(t) > 0 /\ SubSeq(t, Len(t), Len(t)) = " "
  THEN TrimEnd(SubSeq(t, 1, Len(t) - 1))
  ELSE t

Trim(t) == TrimEnd(TrimStart(t))

\* notEmpty()
NotEmpty(value) == Len(value) > 0

\* isLength({ max })
IsLengthMutant(value, max) == TRUE
IsLength(value, max) == Len(value) <= max

\* isUniqueListTitle: the title of res.locals.todoList (current, a set that is
\* empty when the route has no :listID) is accepted; any other title must
\* not be found by listTitleExists.
IsUniqueListTitle(value, current, tl) ==
  value \in current \/ ~\E l \in tl : l.title = value

\* createFormValidationChain(fieldName, fieldDesc) with the default options,
\* followed by isUniqueListTitle() when `unique`: the messages of the
\* validators that fail.  bail() stops the chain after an empty value.
FormErrors(raw, fieldDesc, unique, current, tl) ==
  LET value == Trim(raw)
  IN  IF ~NotEmpty(value)
      THEN <<fieldDesc \o " is required.">>
      ELSE (IF IsLength(value, MaxTitleLength) THEN <<>>
            ELSE <<"Max " \o fieldDesc \o " length is 100 characters.">>)
           \o (IF unique /\ ~IsUniqueListTitle(value, current, tl)
               THEN <<"You're already using that list title. List titles must be unique.">>
               ELSE <<>>)

\* The statements the chain issues: listTitleExists, when isUniqueListTitle
\* runs and the title is not the current one.
FormStmts(raw, unique, current) ==
  IF unique /\ NotEmpty(Trim(raw)) /\ Trim(raw) \notin current
  THEN <<"SELECT listTitle">> ELSE <<>>

\* ifInvalid(callback, { flashErrs: true }) with a validation result that is
\* not empty: the messages are flashed, the callback renders the form again or
\* redirects, and next() is not called.
IfInvalid(p, route, listID, stmts, errors) ==
  /\ pc[p] = "idle"
  /\ Settle(p, Call(route, listID, 0, form[p], FALSE), stmts,
            Outcome("return", "invalid", {}, errors))
  /\ UNCHANGED <<todolists, todos, todosSeq, user>>

\* lists.newList: POST /lists
NewList(p) ==
  LET errors == FormErrors(form[p], "List Title", TRUE, {}, todolists)
  IN  IF errors # <<>>
      THEN IfInvalid(p, "newList", 0, FormStmts(form[p], TRUE, {}), errors)
      ELSE AddList(p, Trim(form[p]), TRUE)

\* list.editList: POST /lists/:listID/edit, once app.param("listID") has
\* found the list.
EditList(p, listID) ==
  /\ \E l \in todolists : l.id = listID
  /\ LET current == {l.title : l \in {x \in todolists : x.id = listID}}
         errors == FormErrors(form[p], "List Title", TRUE, current, todolists)
     IN  IF errors # <<>>
         THEN IfInvalid(p, "editList", listID,
                        FormStmts(form[p], TRUE, current), errors)
         ELSE SetListTitle(p, listID, Trim(form[p]), TRUE)

\* list.newTodo: POST /lists/:listID/todos, once app.param("listID") has
\* found the list.
NewTodo(p, listID) ==
  /\ \E l \in todolists : l.id = listID
  /\ LET errors == FormErrors(form[p], "Todo Title", FALSE, {}, todolists)
     IN  IF errors # <<>>
         THEN IfInvalid(p, "newTodo", listID, <<>>, errors)
         ELSE AddTodo(p, listID, Trim(form[p]), FALSE)

\* One request at a time, each submitting the title form[p].
InitForm ==
  /\ InitDatabase
  /\ InitCalls({1})
  /\ form \in [{1} -> RawTitles]
  /\ heap = NoHeap

NextForm ==
  \/ \E p \in DOMAIN pc : NewList(p)
  \/ \E p \in DOMAIN pc, l \in ListIDs : EditList(p, l)
  \/ \E p \in DOMAIN pc, l \in ListIDs : NewTodo(p, l)
  \/ \E p \in DOMAIN pc : Return(p)

SpecForm == InitForm /\ [][NextForm]_vars

(* ------------------- transactions and the requests ------------------- *)
\* #isInTransaction(), run on client c: statement_timestamp() differs from
\* transaction_timestamp() in a statement that follows the BEGIN of its
\* session.
IsInTransaction(q, c) == q.conn[c].open

\* The database and the pool, as a statement finds and leaves them, with the
\* statements issued.
World(q, tl, td, stmts) ==
  [pool |-> q, todolists |-> tl, todos |-> td, stmts |-> stmts]

\* beginTransaction(options), its statements run on client c.
BeginTransaction(w, c) ==
  IF IsInTransaction(w.pool, c)
  THEN [w EXCEPT !.stmts = w.stmts \o <<"SELECT isTrans">>]
  ELSE [w EXCEPT !.stmts = w.stmts \o <<"SELECT isTrans", "BEGIN">>,
                 !.pool.conn[c] = [Closed EXCEPT !.open = TRUE]]

\* commitTransaction(), its statements run on client c.
CommitTransaction(w, c) ==
  IF ~IsInTransaction(w.pool, c)
  THEN [w EXCEPT !.stmts = w.stmts \o <<"SELECT isTrans">>]
  ELSE LET v == View(w.pool, c, w.todolists, w.todos)
       IN  [w EXCEPT !.stmts = w.stmts \o <<"SELECT isTrans", "COMMIT">>,
                     !.todolists = v.todolists, !.todos = v.todos,
                     !.pool.conn[c] = Closed]

\* rollbackTransaction(), its statements run on client c.
RollbackTransaction(w, c) ==
  IF ~IsInTransaction(w.pool, c)
  THEN [w EXCEPT !.stmts = w.stmts \o <<"SELECT isTrans">>]
  ELSE [w EXCEPT !.stmts = w.stmts \o <<"SELECT isTrans", "ROLLBACK">>,
                 !.pool.conn[c] = Closed]

\* A statement run on client c replaces the rows of todos by td: at once when
\* the session is in no transaction, in the transaction's own rows otherwise.
WriteTodos(w, c, td) ==
  IF w.pool.conn[c].open
  THEN [w EXCEPT !.pool.conn[c] =
          [open |-> TRUE, dirty |-> TRUE,
           todolists |-> View(w.pool, c, w.todolists, w.todos).todolists,
           todos |-> td]]
  ELSE [w EXCEPT !.todos = td]

\* withTransaction(callback) called by p: the isTrans statement, which nobody
\* awaits, takes the client p's chain has just released, and the callback,
\* called at once, gets its client from what the pool has left.
WithTransactionPool(q, p) ==
  LET q1 == Connect(q, p)
  IN  Checkout([q1 EXCEPT !.probes = @ \cup {q1.held[p]}, !.held[p] = NoConn], p)

\* The isTrans statement on client c has ended: the pool takes c back.
ProbeDone(c) ==
  /\ c \in pool.probes
  /\ pool' = [pool EXCEPT !.probes = @ \ {c}, !.idle = Append(@, c)]
  /\ UNCHANGED <<todolists, todos, todosSeq, user, pc, call, log, ret, form, heap>>

\* The world leaves a step of request p, which goes on at `next`.
Step(p, w, c, next, r) ==
  /\ pc' = [pc EXCEPT ![p] = next]
  /\ log' = [log EXCEPT ![p] = w.stmts]
  /\ ret' = [ret EXCEPT ![p] = r]
  /\ todolists' = w.todolists
  /\ todos' = w.todos
  /\ pool' = IF next \in {"responded", "finished"}
             THEN Release([w.pool EXCEPT !.ran[p] = c], p)
             ELSE [w.pool EXCEPT !.ran[p] = c]
  /\ UNCHANGED <<todosSeq, user, form, heap>>

\* app.param("listID"): a POST request to a route under /lists/:listID
\* begins a READ WRITE transaction and looks the list up with
\* findList(listID, {throw: true}).
ParamListID(p, route, listID, todoID) ==
  /\ pc[p] = "idle"
  /\ call' = [call EXCEPT ![p] = Call(route, listID, todoID, "", TRUE)]
  /\ LET q == Connect(pool, p)
         c == q.held[p]
         w == BeginTransaction(World(q, todolists, todos, <<>>), c)
         v == View(w.pool, c, w.todolists, w.todos)
         w2 == [w EXCEPT !.stmts = w.stmts \o <<"SELECT list">>]
     IN  IF \E l \in v.todolists : l.id = listID
         THEN Step(p, w2, c, IF route = "toggle" THEN "paramTodoID" ELSE "handler",
                   NoOutcome)
         ELSE Step(p, w2, c, "error", Throws(ERROR_CODE_INVALID_LIST_ID))

\* The callback of findTodo and toggleDone up to its last statement, run on
\* client c with {throw: true}: the error it throws, or none.
ChecksThrow(v, c) ==
  IF ~\E l \in v.todolists : l.id = c.listID
  THEN {Throws(ERROR_CODE_INVALID_LIST_ID)}
  ELSE IF ~\E t \in v.todos : t.id = c.todoID
       THEN {Throws(ERROR_CODE_INVALID_TODO_ID)}
       ELSE {}

\* The statements withTransaction and such a callback issue.
ChecksStmts(v, c, last) ==
  <<"SELECT isTrans", "SELECT listExists">>
    \o (IF \E l \in v.todolists : l.id = c.listID
        THEN <<"SELECT todoExists">> ELSE <<>>)
    \o (IF ChecksThrow(v, c) = {} THEN <<last>> ELSE <<>>)

\* app.param("todoID"): findTodo(todoID, listID, {throw: true}), whose result
\* is not looked at.
ParamTodoID(p) ==
  /\ pc[p] = "paramTodoID"
  /\ call' = call
  /\ LET q == WithTransactionPool(pool, p)
         c == q.held[p]
         v == View(q, c, todolists, todos)
         w == World(q, todolists, todos,
                    log[p] \o ChecksStmts(v, call[p], "SELECT todo"))
         thrown == ChecksThrow(v, call[p])
     IN  IF thrown = {}
         THEN Step(p, w, c, "handler", NoOutcome)
         ELSE Step(p, w, c, "error", CHOOSE r \in thrown : TRUE)

\* list.completeAll: markAllDone(listID), then the redirect.
CompleteAll(p) ==
  /\ pc[p] = "handler" /\ call[p].op = "completeAll"
  /\ call' = call
  /\ LET c == pool.held[p]
         w == World(pool, todolists, todos, Append(log[p], "UPDATE todos"))
         v == View(pool, c, todolists, todos)
         own == {t \in v.todos : t.todolist_id = call[p].listID}
     IN  Step(p, WriteTodos(w, c, (v.todos \ own)
                                    \cup {[t EXCEPT !.done = TRUE] : t \in own}),
              c, "responded", Returns(IF own = {} THEN "false" ELSE "true"))

\* todo.toggle: toggleDone(todoID, listID, {throw: true}), then todo.done of
\* what it returned, then the redirect.
Toggle(p) ==
  /\ pc[p] = "handler" /\ call[p].op = "toggle"
  /\ call' = call
  /\ LET q == WithTransactionPool(pool, p)
         c == q.held[p]
         v == View(q, c, todolists, todos)
         w == World(q, todolists, todos,
                    log[p] \o ChecksStmts(v, call[p], "UPDATE todo"))
         thrown == ChecksThrow(v, call[p])
         hit == Matched(v.todos, call[p])
     IN  IF thrown # {}
         THEN Step(p, w, c, "error", CHOOSE r \in thrown : TRUE)
         ELSE IF hit = {}
              THEN Step(p, w, c, "error", Throws(TypeError))
              ELSE Step(p, WriteTodos(w, c, (v.todos \ hit) \cup Toggled(hit)),
                        c, "responded", FirstRow(Toggled(hit), v.todolists))

\* The error-handling middleware: rollbackTransaction(), then the 404 page.
ErrorHandler(p) ==
  /\ pc[p] = "error"
  /\ call' = call
  /\ LET c == pool.held[p]
     IN  Step(p, RollbackTransaction(World(pool, todolists, todos, log[p]), c),
              c, "responded", ret[p])

\* res.once("finish"): res.locals.commitTransaction(), in a chain of its own.
Finish(p) ==
  /\ pc[p] = "responded"
  /\ call' = call
  /\ LET q == Checkout(pool, p)
         c == q.held[p]
     IN  Step(p, CommitTransaction(World(q, todolists, todos, log[p]), c),
              c, "finished", ret[p])

\* One POST request to a route with a :listID parameter, from its arrival to
\* the end of its "finish" handler.
NextRequest ==
  \/ \E p \in DOMAIN pc, l \in ListIDs : ParamListID(p, "completeAll", l, 0)
  \/ \E p \in DOMAIN pc, l \in ListIDs, t \in TodoIDs :
       ParamListID(p, "toggle", l, t)
  \/ \E p \in DOMAIN pc : ParamTodoID(p)
  \/ \E p \in DOMAIN pc : CompleteAll(p)
  \/ \E p \in DOMAIN pc : Toggle(p)
  \/ \E p \in DOMAIN pc : ErrorHandler(p)
  \/ \E p \in DOMAIN pc : Finish(p)
  \/ \E c \in Conns : ProbeDone(c)

SpecRequest == Init /\ [][NextRequest]_vars

(* ------------------------ the in-memory classes ----------------------- *)
\* Everything but the heap: no request is in progress while the classes are
\* used on their own.
dbvars == <<todolists, todos, todosSeq, user, pc, call, log, ret, pool, form>>

NoRequests ==
  /\ todolists = {} /\ todos = {} /\ todosSeq = 1
  /\ InitCalls({})
  /\ form = <<>>

\* The Todo objects that may exist at once, and the longest #todos array.
MaxObjects == 3
MaxSize == 3

\* Titles of Todo objects.
ObjectTitles == {"Milk", "eggs"}

\* An index argument: the number `whole`, or `whole` + 0.5 when `half`.  The
\* integers from -1 to beyond the largest size, and 0.5.
Indexes ==
  [whole : -1..(MaxSize + 1), half : {FALSE}] \cup [whole : {0}, half : {TRUE}]

\* Number.isInteger(index)
NumberIsInteger(index) == ~index.half

\* next-id.js: currentID += 1; return currentID.
NextID(h) == [h EXCEPT !.currentID = h.currentID + 1]

\* new Todo(title): the heap with the new object, whose id is nextID().
NewTodoObject(h, title) ==
  LET h1 == NextID(h)
  IN  [h1 EXCEPT !.objs = [i \in DOMAIN h.objs \cup {h1.currentID} |->
                             IF i = h1.currentID
                             THEN [title |-> title, done |-> FALSE]
                             ELSE h.objs[i]]]

\* size()
TodoListSize(h) == Len(h.list)

\* _validateIndex(index) does not throw.
ValidateIndexMutant(h, index) ==
  ~(index.whole < 0 \/ index.whole >= TodoListSize(h))
ValidateIndex(h, index) ==
  ~(~NumberIsInteger(index) \/ index.whole < 0 \/ index.whole >= TodoListSize(h))

\* this.#todos.every((todo) => todo.isDone())
RECURSIVE Every(_, _)
Every(h, i) ==
  IF i > Len(h.list) THEN TRUE
  ELSE IF ~h.objs[h.list[i]].done THEN FALSE
  ELSE Every(h, i + 1)

\* isDone()
TodoListIsDoneMutant(h) == Every(h, 1)
TodoListIsDone(h) == TodoListSize(h) > 0 /\ Every(h, 1)

\* this.#todos.splice(index, 1): the array without the element at `index`
\* (zero-based).
Splice(list, index) ==
  SubSeq(list, 1, index) \o SubSeq(list, index + 2, Len(list))

\* A method of the TodoList, called with `arg`, has ended: the heap it leaves
\* and what it returned or threw.
Ends(h, op, arg, kind, val) ==
  /\ heap' = [h EXCEPT !.out = [op |-> op, arg |-> arg, kind |-> kind,
                                val |-> val]]
  /\ UNCHANGED dbvars

\* add(title): a string becomes a new Todo, which is pushed.
TodoListAdd(title) ==
  /\ heap.currentID < MaxObjects /\ TodoListSize(heap) < MaxSize
  /\ LET h == NewTodoObject(heap, title)
     IN  Ends([h EXCEPT !.list = Append(heap.list, h.currentID)],
              "add", title, "return", "undefined")

\* add(todo), todo a Todo object that exists already (it may be in the list).
TodoListAddObject(id) ==
  /\ id \in DOMAIN heap.objs /\ TodoListSize(heap) < MaxSize
  /\ Ends([heap EXCEPT !.list = Append(heap.list, id)],
          "add", id, "return", "undefined")

\* itemAt(index)
TodoListItemAt(index) ==
  IF ~ValidateIndex(heap, index)
  THEN Ends(heap, "itemAt", index, "throw", "ReferenceError")
  ELSE Ends(heap, "itemAt", index, "return", heap.list[index.whole + 1])

\* markDoneAt(index): this.itemAt(index).markDone()
TodoListMarkDoneAt(index) ==
  IF ~ValidateIndex(heap, index)
  THEN Ends(heap, "markDoneAt", index, "throw", "ReferenceError")
  ELSE Ends([heap EXCEPT !.objs[heap.list[index.whole + 1]].done = TRUE],
            "markDoneAt", index, "return", "undefined")

\* markUndoneAt(index): this.itemAt(index).markUndone()
TodoListMarkUndoneAt(index) ==
  IF ~ValidateIndex(heap, index)
  THEN Ends(heap, "markUndoneAt", index, "throw", "ReferenceError")
  ELSE Ends([heap EXCEPT !.objs[heap.list[index.whole + 1]].done = FALSE],
            "markUndoneAt", index, "return", "undefined")

\* removeAt(index)
TodoListRemoveAt(index) ==
  IF ~ValidateIndex(heap, index)
  THEN Ends(heap, "removeAt", index, "throw", "ReferenceError")
  ELSE Ends([heap EXCEPT !.list = Splice(heap.list, index.whole)],
            "removeAt", index, "return", heap.list[index.whole + 1])

\* shift()
TodoListShift ==
  IF heap.list = <<>> THEN Ends(heap, "shift", "undefined", "return", "undefined")
  ELSE Ends([heap EXCEPT !.list = Tail(heap.list)],
            "shift", "undefined", "return", Head(heap.list))

\* pop()
TodoListPop ==
  IF heap.list = <<>> THEN Ends(heap, "pop", "undefined", "return", "undefined")
  ELSE Ends([heap EXCEPT !.list = SubSeq(heap.list, 1, Len(heap.list) - 1)],
            "pop", "undefined", "return", heap.list[Len(heap.list)])

\* markDone(title): the first Todo with that title, if any, is marked done.
TodoListMarkDone(title) ==
  LET hits == {i \in DOMAIN heap.list : heap.objs[heap.list[i]].title = title}
  IN  IF hits = {} THEN Ends(heap, "markDone", title, "return", "undefined")
      ELSE LET first == CHOOSE i \in hits : \A j \in hits : i <= j
           IN  Ends([heap EXCEPT !.objs[heap.list[first]].done = TRUE],
                    "markDone", title, "return", "undefined")

\* The objects of the list, each with its done flag set to `done`.
MarkEach(h, done) ==
  [i \in DOMAIN h.objs |->
     IF \E k \in DOMAIN h.list : h.list[k] = i
     THEN [h.objs[i] EXCEPT !.done = done] ELSE h.objs[i]]

\* markAllDone()
TodoListMarkAllDone ==
  Ends([heap EXCEPT !.objs = MarkEach(heap, TRUE)],
       "markAllDone", "undefined", "return", "undefined")

\* markAllUndone()
TodoListMarkAllUndone ==
  Ends([heap EXCEPT !.objs = MarkEach(heap, FALSE)],
       "markAllUndone", "undefined", "return", "undefined")

\* A TodoList made with new TodoList(title): no todos yet, no Todo created.
InitList ==
  /\ NoRequests
  /\ heap = [currentID |-> 0, objs |-> <<>>, list |-> <<>>,
             out |-> [op |-> "new", arg |-> "Home", kind |-> "return",
                      val |-> "undefined"]]

NextList ==
  \/ \E t \in ObjectTitles : TodoListAdd(t)
  \/ \E id \in 1..MaxObjects : TodoListAddObject(id)
  \/ \E i \in Indexes : TodoListItemAt(i)
  \/ \E i \in Indexes : TodoListMarkDoneAt(i)
  \/ \E i \in Indexes : TodoListMarkUndoneAt(i)
  \/ \E i \in Indexes : TodoListRemoveAt(i)
  \/ TodoListShift
  \/ TodoListPop
  \/ \E t \in ObjectTitles : TodoListMarkDone(t)
  \/ TodoListMarkAllDone
  \/ TodoListMarkAllUndone

SpecList == InitList /\ [][NextList]_vars

(* ------------------------------ compare ------------------------------- *)
\* Titles to compare: two that differ only in case, and three others.
CompareTitles == {"Work", "work", "Home", "Milk", "eggs"}

\* String.prototype.toLowerCase()
ToLowerCaseMutant(t) == t
ToLowerCase(t) ==
  IF t = "Work" THEN "work"
  ELSE IF t = "Home" THEN "home"
  ELSE IF t = "Milk" THEN "milk"
  ELSE t

\* The place of a string in the collation of localeCompare (a lower-case
\* letter before the same letter in upper case).
LocaleRank(t) ==
  IF t = "eggs" THEN 1
  ELSE IF t = "home" THEN 2
  ELSE IF t = "Home" THEN 3
  ELSE IF t = "milk" THEN 4
  ELSE IF t = "Milk" THEN 5
  ELSE IF t = "work" THEN 6
  ELSE 7

\* x.localeCompare(y)
LocaleCompare(x, y) ==
  IF LocaleRank(x) < LocaleRank(y) THEN -1
  ELSE IF LocaleRank(x) = LocaleRank(y) THEN 0
  ELSE 1

\* Todo.compare: a.compare(b)
TodoCompare(a, b) ==
  IF a.done = b.done
  THEN LocaleCompare(ToLowerCase(a.title), ToLowerCase(b.title))
  ELSE IF a.done THEN 1 ELSE -1

\* TodoList.compare: a.compare(b)
TodoListCompare(a, b) ==
  IF TodoListIsDone(a) = TodoListIsDone(b)
  THEN LocaleCompare(ToLowerCase(a.title), ToLowerCase(b.title))
  ELSE IF TodoListIsDone(a) THEN 1 ELSE -1

\* Todo objects, and TodoList objects with up to two todos.
TodoObjects == [title : CompareTitles, done : BOOLEAN]

TodoListObjects ==
  UNION {{[title |-> t, list |-> [i \in 1..n |-> i],
           objs |-> [i \in 1..n |-> [title |-> "Milk", done |-> d[i]]]]
            : t \in {"Work", "work", "Home"}, d \in [1..n -> BOOLEAN]}
         : n \in 0..2}

\* a.compare(b) and b.compare(a) have not been called yet.
NotCompared == [ab |-> 2, ba |-> 2]

\* Two Todos, or two TodoLists, to be compared.
InitCompare ==
  /\ NoRequests
  /\ \/ \E a, b \in TodoObjects :
          heap = [currentID |-> 0, kind |-> "Todo", a |-> a, b |-> b,
                  out |-> NotCompared]
     \/ \E a, b \in TodoListObjects :
          heap = [currentID |-> 0, kind |-> "TodoList", a |-> a, b |-> b,
                  out |-> NotCompared]

CompareTodos ==
  /\ heap.kind = "Todo" /\ heap.out = NotCompared
  /\ heap' = [heap EXCEPT !.out = [ab |-> TodoCompare(heap.a, heap.b),
                                   ba |-> TodoCompare(heap.b, heap.a)]]
  /\ UNCHANGED dbvars

CompareTodoLists ==
  /\ heap.kind = "TodoList" /\ heap.out = NotCompared
  /\ heap' = [heap EXCEPT !.out = [ab |-> TodoListCompare(heap.a, heap.b),
                                   ba |-> TodoListCompare(heap.b, heap.a)]]
  /\ UNCHANGED dbvars

NextCompare ==
  \/ CompareTodos
  \/ CompareTodoLists

SpecCompare == InitCompare /\ [][NextCompare]_vars

(* -------------------------------- sort -------------------------------- *)
\* The longest array that is sorted.
MaxSortLength == 3

\* Titles of the elements: two that compare equal, one that does not.
SortTitles == {"Work", "work", "Home"}

\* The default callbacks of toSortedArray (elements of kind "TodoList" are
\* Todos) and of TodoLists.sort (elements of kind "TodoLists" are TodoLists).
SortCallback(kind, a, b) ==
  IF kind = "TodoList" THEN TodoCompare(a, b) ELSE TodoListCompare(a, b)

\* Array.prototype.sort takes x, the next element of the array, in front of y,
\* an element already placed, only when the callback says x sorts before y.
GoesBeforeMutant(kind, x, y) == SortCallback(kind, x, y) <= 0
GoesBefore(kind, x, y) == SortCallback(kind, x, y) < 0

\* x placed into the sorted array s.
RECURSIVE Insert(_, _, _)
Insert(kind, x, s) ==
  IF s = <<>> THEN <<x>>
  ELSE IF GoesBefore(kind, x, s[Len(s)])
       THEN Append(Insert(kind, x, SubSeq(s, 1, Len(s) - 1)), s[Len(s)])
       ELSE Append(s, x)

\* Array.prototype.sort(callback): the stable sort of Node 20.
RECURSIVE ArraySort(_, _)
ArraySort(kind, s) ==
  IF s = <<>> THEN <<>>
  ELSE Insert(kind, s[Len(s)], ArraySort(kind, SubSeq(s, 1, Len(s) - 1)))

\* The Todos a TodoList may hold, and the TodoLists a TodoLists may hold (a
\* list with no todo, with one todo not done, with one todo done), each with
\* the id it was created with.
SortableTodos(id) == [id : {id}, title : SortTitles, done : BOOLEAN]

SortableLists(id) ==
  {[id |-> id, title |-> t, list |-> l.list, objs |-> l.objs]
     : t \in SortTitles,
       l \in {x \in TodoListObjects : x.title = "Home" /\ Len(x.list) <= 1}}

\* A TodoLists collection, or the todos of a TodoList, in any order.
InitSortArray ==
  /\ NoRequests
  /\ \E n \in 0..MaxSortLength :
       \/ \E a \in [1..n -> UNION {SortableLists(i) : i \in 1..n}] :
            /\ \A i \in 1..n : a[i].id = i
            /\ heap = [currentID |-> n, kind |-> "TodoLists", lists |-> a,
                       out |-> [op |-> "new", val |-> <<>>]]
       \/ \E a \in [1..n -> UNION {SortableTodos(i) : i \in 1..n}] :
            /\ \A i \in 1..n : a[i].id = i
            /\ heap = [currentID |-> n, kind |-> "TodoList", lists |-> a,
                       out |-> [op |-> "new", val |-> <<>>]]

\* TodoLists.sort(): this.lists.sort(callback); return this.
TodoListsSort ==
  /\ heap.kind = "TodoLists"
  /\ heap' = [heap EXCEPT !.lists = ArraySort(heap.kind, heap.lists),
                          !.out = [op |-> "sort", val |-> "this"]]
  /\ UNCHANGED dbvars

\* TodoList.toSortedArray(): this.toArray().sort(callback), a sorted copy.
ToSortedArray ==
  /\ heap.kind = "TodoList"
  /\ heap' = [heap EXCEPT !.out = [op |-> "toSortedArray",
                                   val |-> ArraySort(heap.kind, heap.lists)]]
  /\ UNCHANGED dbvars

NextSortArray ==
  \/ TodoListsSort
  \/ ToSortedArray

SpecSortArray == InitSortArray /\ [][NextSortArray]_vars

(* ------------------------------ next-id ------------------------------- *)
\* The entities created in one run, and the ids a Todo-like or TodoList-like
\* object may carry.
MaxEntities == 4
LikeIDs == 1..3

\* The entities created so far, each with its class, its id and whether it
\* was made from a title or from a Todo-like / TodoList-like object.
Entity(class, id, from) == [class |-> class, id |-> id, from |-> from]

\* new Todo(title) and new TodoList(title): initialVal is not Todo-like, so
\* this.#id = nextID().
NewFromTitle(class) ==
  /\ Len(heap.made) < MaxEntities
  /\ LET h == NextID(heap)
     IN  heap' = [h EXCEPT !.made = Append(heap.made,
                                           Entity(class, h.currentID, "title")),
                           !.returned = heap.returned \cup {h.currentID}]
  /\ UNCHANGED dbvars

\* new Todo(todoLike) and new TodoList(todoListLike): this.#id =
\* initialVal.id; nextID is not called.
NewFromLike(class, id) ==
  /\ Len(heap.made) < MaxEntities
  /\ heap' = [heap EXCEPT !.made = Append(heap.made, Entity(class, id, "like"))]
  /\ UNCHANGED dbvars

\* nextID() called on its own.
CallNextID ==
  /\ heap.currentID < MaxEntities
  /\ LET h == NextID(heap)
     IN  heap' = [h EXCEPT !.returned = heap.returned \cup {h.currentID}]
  /\ UNCHANGED dbvars

\* The module next-id has just been loaded: let currentID = 0.
InitIDs ==
  /\ NoRequests
  /\ heap = [currentID |-> 0, made |-> <<>>, returned |-> {}]

NextIDs ==
  \/ \E class \in {"Todo", "TodoList"} : NewFromTitle(class)
  \/ \E class \in {"Todo", "TodoList"}, id \in LikeIDs : NewFromLike(class, id)
  \/ CallNextID

SpecIDs == InitIDs /\ [][NextIDs]_vars

(* ------------------------- the expected errors ------------------------ *)
\* new Error(message, options): the Error keeps the message and, of the keys
\* of options, the cause alone.  cause is the set holding the cause, empty
\* when the Error has none.
NewError(message, options) ==
  [message |-> message,
   cause |-> IF "cause" \in DOMAIN options THEN {options.cause} ELSE {}]

\* The Error object behind an error the store's operations throw:
\* #errInvalidListID, #errInvalidTodoID and #errNonUniqueListTitle build
\* theirs; the others come from the database driver or the runtime.
ErrorObject(tag) ==
  IF tag = ERROR_CODE_INVALID_LIST_ID
  THEN NewError("The given list ID doesn't exist",
                [code |-> ERROR_CODE_INVALID_LIST_ID])
  ELSE IF tag = ERROR_CODE_INVALID_TODO_ID
  THEN NewError("The given todo ID doesn't exist",
                [code |-> ERROR_CODE_INVALID_TODO_ID])
  ELSE IF tag = ERROR_CODE_NON_UNIQUE_LIST_TITLE
  THEN NewError("List titles must be unique.",
                [cause |-> [code |-> ERROR_CODE_NON_UNIQUE_LIST_TITLE]])
  ELSE NewError(tag, [code |-> tag])

\* wrapIfExpected(err, expectedErrCodes)
WrapIfExpected(err, expectedErrCodes) ==
  IF \E c \in err.cause : c.code \in DOMAIN expectedErrCodes
  THEN LET c == CHOOSE x \in err.cause : TRUE
       IN  NewError(expectedErrCodes[c.code], [cause |-> err])
  ELSE err

\* The options of the withAttemptAsync around the store call `op`:
\* app.param("listID") around findList, app.param("todoID") around findTodo,
\* list.removeList around removeList; the other handlers pass none.
ExpectedErrCodes(op) ==
  IF op = "findList"
  THEN (ERROR_CODE_INVALID_LIST_ID :> "That list doesn't exist.")
  ELSE IF op = "findTodo"
  THEN (ERROR_CODE_INVALID_TODO_ID :> "That todo doesn't exist.")
  ELSE IF op = "removeList"
  THEN (ERROR_CODE_INVALID_LIST_ID :>
          "Unable to delete that list. Are you sure it hasn't already been deleted?")
  ELSE <<>>

FlashExpectedErrs(op) == op = "removeList"

\* What next(newErr) hands to the error-handling middleware: the message of
\* newErr and the messages flashed.
Passed(message, flashed) == Outcome("next", message, {}, flashed)

\* The catch block of withAttemptAsync, entered with the error the store call
\* of request p has thrown.
WithAttemptAsync(p) ==
  /\ pc[p] = "done" /\ ret[p].kind = "throw"
  /\ LET err == ErrorObject(ret[p].tag)
         newErr == WrapIfExpected(err, ExpectedErrCodes(call[p].op))
         isExpected == err # newErr
     IN  ret' = [ret EXCEPT ![p] =
                   Passed(newErr.message,
                          IF isExpected /\ FlashExpectedErrs(call[p].op)
                          THEN <<newErr.message>> ELSE <<>>)]
  /\ pc' = [pc EXCEPT ![p] = "error"]
  /\ UNCHANGED <<todolists, todos, todosSeq, user, call, log, pool, form, heap>>

\* One request at a time calls, with {throw: true}, the operations the
\* handlers call inside withAttemptAsync.
NextErrors ==
  \/ \E p \in DOMAIN pc, l \in ListIDs : FindList(p, l, TRUE)
  \/ \E p \in DOMAIN pc, l \in ListIDs, t \in TodoIDs : FindTodo(p, t, l, TRUE)
  \/ \E p \in DOMAIN pc, l \in ListIDs : RemoveList(p, l, TRUE)
  \/ \E p \in DOMAIN pc, l \in ListIDs, t \in Titles : SetListTitle(p, l, t, TRUE)
  \/ \E p \in DOMAIN pc : ListExists(p)
  \/ \E p \in DOMAIN pc : TodoExists(p)
  \/ \E p \in DOMAIN pc : FindTodoStmt(p)
  \/ \E p \in DOMAIN pc : WithAttemptAsync(p)
  \/ \E p \in DOMAIN pc : Return(p)

SpecErrors == Init /\ [][NextErrors]_vars

(* ----------------------- concurrent removeTodo ------------------------ *)
\* Two concurrent requests of one user that call removeTodo for the same todo
\* of the same list.
NextRemoveTodo ==
  \/ \E p \in DOMAIN pc, th \in BOOLEAN : RemoveTodo(p, RaceTodo, RaceList, th)
  \/ \E p \in DOMAIN pc : ListExists(p)
  \/ \E p \in DOMAIN pc : TodoExists(p)
  \/ \E p \in DOMAIN pc : RemoveTodoStmt(p)
  \/ \E p \in DOMAIN pc : Return(p)

SpecRemoveTodo == InitRace /\ [][NextRemoveTodo]_vars

(* ------------------------------ outcomes ------------------------------ *)
\* Request p has just made step `op`: it called the single-statement
\* operation and the statement ran, in one step.
Ran(p, op) == pc[p] = "idle" /\ pc'[p] = "done" /\ call'[p].op = op

\* The operation of request p has ended and is `op`.
Ended(p, op) == pc[p] = "done" /\ call[p].op = op

\* Conflict: the NonUniqueListTitle error when options.throw, else a returned
\* sentinel.
IsConflict(c, r) ==
  IF c.throw
  THEN r.kind = "throw" /\ r.tag = ERROR_CODE_NON_UNIQUE_LIST_TITLE
  ELSE r.kind = "return" /\ r.tag = "false"

\* NotFound: an invalid-ID error when options.throw, else a returned sentinel.
IsNotFound(c, r) ==
  IF c.throw
  THEN r.kind = "throw"
       /\ r.tag \in {ERROR_CODE_INVALID_LIST_ID, ERROR_CODE_INVALID_TODO_ID}
  ELSE r.kind = "return" /\ r.tag \in {"false", "undefined"}

\* The owner u has a list titled t.
OwnsTitle(tl, u, t) == \E l \in tl : l.user_id = u /\ l.title = t

(* ------------------------------- claims ------------------------------- *)
\* C1 (as claimed): an owner never has two lists with one title, and an
\* addList whose title the calling owner already uses ends in Conflict and
\* changes neither table.
C1_AddListConflict ==
  /\ [](\A a, b \in todolists :
          (a.title = b.title /\ a.user_id = b.user_id) => a = b)
  /\ [][\A p \in DOMAIN pc :
          (Ran(p, "addList") /\ OwnsTitle(todolists, user[p], call'[p].title))
            => /\ IsConflict(call'[p], ret'[p])
               /\ todolists' = todolists /\ todos' = todos]_vars

\* C2 (as claimed): when two requests of one owner have both called addList
\* with one title, neither ended in a raw storage error, at most one
\* succeeded, the other ended in Conflict, and the owner has exactly one list
\* with that title.
C2_ConcurrentAddList ==
  \A p, q \in DOMAIN pc :
    (/\ p # q /\ Ended(p, "addList") /\ Ended(q, "addList")
     /\ call[p].title = call[q].title /\ user[p] = user[q])
      => /\ \/ ret[p].kind = "return" /\ ret[p].tag = "true"
               /\ IsConflict(call[q], ret[q])
            \/ ret[q].kind = "return" /\ ret[q].tag = "true"
               /\ IsConflict(call[p], ret[p])
            \/ IsConflict(call[p], ret[p]) /\ IsConflict(call[q], ret[q])
         /\ Cardinality({l \in todolists :
              l.title = call[p].title /\ l.user_id = user[p]}) = 1

\* C3 (as claimed): an operation that issues more than one statement issues
\* BEGIN before its first statement and, once ended, has issued COMMIT or
\* ROLLBACK as its last.
C3_MultiStatementInTransaction ==
  \A p \in DOMAIN pc :
    (call[p].op \in {"findTodo", "toggleDone", "removeTodo"}
       /\ \E i \in DOMAIN log[p] : log[p][i] \in {"UPDATE todo", "DELETE todo", "SELECT todo"})
      => /\ \E i \in DOMAIN log[p] :
              /\ log[p][i] = "BEGIN"
              /\ \A j \in 1..(i - 1) : log[p][j] = "SELECT isTrans"
         /\ pc[p] = "done" => log[p][Len(log[p])] \in {"COMMIT", "ROLLBACK"}

\* C4: when removeList(L) runs for an existing list L, that one step removes
\* exactly L from todolists and exactly the todos of L from todos; every other
\* list and todo stays as it was.
C4_RemoveListFrame ==
  [][\A p \in DOMAIN pc :
       (Ran(p, "removeList") /\ \E l \in todolists : l.id = call'[p].listID)
         => /\ todolists' = {l \in todolists : l.id # call'[p].listID}
            /\ todos' = {t \in todos : t.todolist_id # call'[p].listID}]_vars

\* removeList has removed a list with a todo while another list keeps its todo.
C4_Witness ==
  \E p \in DOMAIN pc :
    /\ Ended(p, "removeList") /\ ret[p].tag = "list"
    /\ \E m \in ret[p].row : m.length >= 1
    /\ todos # {} /\ todolists # {}

\* C5 (as claimed): sortedTodoLists returns only lists of the calling owner,
\* and an operation given the id of a list of another owner ends in NotFound
\* and changes neither table.
C5_OwnerScoped ==
  [][\A p \in DOMAIN pc :
       /\ Ran(p, "sortedTodoLists")
            => \A i \in DOMAIN ret'[p].rows :
                 \E l \in todolists :
                   l.id = ret'[p].rows[i].id /\ l.user_id = user[p]
       /\ \A op \in {"sortedTodoList", "setListTitle", "addTodo", "markAllDone",
                     "removeList"} :
            (Ran(p, op) /\ \E l \in todolists :
                              l.id = call'[p].listID /\ l.user_id # user[p])
              => /\ IsNotFound(call'[p], ret'[p])
                 /\ todolists' = todolists /\ todos' = todos]_vars

\* C6 (as claimed): listTitleExists answers for the calling owner's lists
\* only, and addList succeeds and adds the owner's list exactly when that
\* owner has no list with the title (whatever other owners have), and ends in
\* Conflict otherwise.
C6_TitleUniquePerOwner ==
  [][\A p \in DOMAIN pc :
       /\ Ran(p, "listTitleExists")
            => (ret'[p].tag = "true"
                  <=> OwnsTitle(todolists, user[p], call'[p].title))
       /\ Ran(p, "addList")
            => IF OwnsTitle(todolists, user[p], call'[p].title)
               THEN IsConflict(call'[p], ret'[p]) /\ todolists' = todolists
               ELSE /\ ret'[p].kind = "return" /\ ret'[p].tag = "true"
                    /\ \E l \in todolists' \ todolists :
                         /\ l.title = call'[p].title /\ l.user_id = user[p]
                         /\ todolists' = todolists \cup {l}]_vars

\* C7 (as claimed): a setListTitle that would give an existing list a title
\* which another list of the same owner has ends in Conflict, never in the
\* raw storage error, and changes no title.
C7_SetListTitleConflict ==
  [][\A p \in DOMAIN pc :
       (Ran(p, "setListTitle")
          /\ \E l, o \in todolists :
               /\ l.id = call'[p].listID /\ o.id # l.id
               /\ o.user_id = l.user_id /\ o.title = call'[p].title)
         => /\ IF call'[p].throw
               THEN ret'[p].kind = "throw"
                    /\ ret'[p].tag = ERROR_CODE_NON_UNIQUE_LIST_TITLE
               ELSE ret'[p].kind = "return"
            /\ todolists' = todolists]_vars

C9_ToggleDone ==
  /\ [][\A p \in DOMAIN pc :
          (pc[p] = "stmt" /\ pc'[p] = "done" /\ call[p].op = "toggleDone")
            => \A t \in todos :
                 (t.id = call[p].todoID /\ t.todolist_id = call[p].listID)
                   => /\ todos' = (todos \ {t}) \cup {[t EXCEPT !.done = ~t.done]}
                      /\ ret'[p].kind = "return" /\ ret'[p].tag = "todo"
                      /\ \A r \in ret'[p].row :
                           /\ r.id = t.id /\ r.title = t.title
                           /\ r.listID = t.todolist_id /\ r.done = ~t.done]_vars
  /\ [][\A p, q \in DOMAIN pc :
          (/\ p # q /\ Ended(p, "toggleDone") /\ ret[p].tag = "todo"
           /\ pc[q] = "stmt" /\ pc'[q] = "done" /\ call[q].op = "toggleDone"
           /\ call[q].todoID = call[p].todoID /\ call[q].listID = call[p].listID)
            => \A r \in ret[p].row, t \in todos :
                 (t.id = r.id /\ t.todolist_id = r.listID /\ t.done = r.done)
                   => /\ [t EXCEPT !.done = ~r.done] \in todos'
                      /\ \A u \in ret'[q].row : u.done = ~r.done]_vars

\* Two concurrent requests have both toggled the same todo.
C9_Witness ==
  \E p, q \in DOMAIN pc :
    /\ p # q /\ Ended(p, "toggleDone") /\ Ended(q, "toggleDone")
    /\ ret[p].tag = "todo" /\ ret[q].tag = "todo"
    /\ \A r \in ret[p].row, u \in ret[q].row : r.id = u.id /\ r.done # u.done
    /\ \E t, o \in todos : t.id = call[p].todoID /\ o.id # t.id

\* C10 (as claimed): toggleDone and removeTodo, given a todo that exists in
\* another list than listID, end in NotFound (with options.throw an invalid-ID
\* error is thrown) and change no todo.
C10_TodoOfOtherList ==
  [][\A p \in DOMAIN pc :
       (/\ pc'[p] = "done" /\ pc[p] # "done"
        /\ call[p].op \in {"toggleDone", "removeTodo"}
        /\ \E t \in todos : t.id = call[p].todoID /\ t.todolist_id # call[p].listID)
         => IsNotFound(call[p], ret'[p]) /\ todos' = todos]_vars

\* C11 (as claimed): sortedTodoList(listID) and findList(listID), for a
\* listID no list has (never created, or removed before), return undefined
\* with options.throw false and throw the InvalidListID error with
\* options.throw true; no other error is raised.
C11_ListNotFound ==
  [][\A p \in DOMAIN pc :
       \A op \in {"sortedTodoList", "findList"} :
         (Ran(p, op) /\ ~\E l \in todolists : l.id = call'[p].listID)
           => IF call'[p].throw
              THEN ret'[p].kind = "throw"
                   /\ ret'[p].tag = ERROR_CODE_INVALID_LIST_ID
              ELSE ret'[p].kind = "return" /\ ret'[p].tag = "undefined"]_vars

\* C12 (as claimed): removeList(id) on an existing list returns a snapshot
\* taken before the deletion: length is the number of todos the list had,
\* countDone the number of them that were done, done is the boolean
\* (length > 0 and countDone = length), and todos are exactly the removed
\* todos (none for an empty list).
C12_RemoveListSnapshot ==
  [][\A p \in DOMAIN pc :
       (Ran(p, "removeList") /\ \E l \in todolists : l.id = call'[p].listID)
         => LET own == {t \in todos : t.todolist_id = call'[p].listID}
                n == Cardinality(own)
                k == Cardinality({t \in own : t.done})
            IN  /\ ret'[p].kind = "return" /\ ret'[p].tag = "list"
                /\ \A m \in ret'[p].row :
                     /\ m.id = call'[p].listID
                     /\ m.length = n /\ m.countDone = k
                     /\ m.done = (IF n > 0 /\ k = n THEN "true" ELSE "false")
                /\ Len(ret'[p].rows) = n
                /\ {[id |-> ret'[p].rows[i].id, title |-> ret'[p].rows[i].title,
                     done |-> ret'[p].rows[i].done,
                     todolist_id |-> ret'[p].rows[i].listID]
                      : i \in DOMAIN ret'[p].rows} = own]_vars

\* C13 (as claimed): setListTitle(listID, title) for a listID no list has
\* throws the InvalidListID error with options.throw true and returns a
\* falsy value with options.throw false, and changes no title; whenever
\* setListTitle returns a truthy value the list has the title.
C13_SetListTitleNotFound ==
  [][\A p \in DOMAIN pc :
       Ran(p, "setListTitle")
         => /\ (~\E l \in todolists : l.id = call'[p].listID)
                 => /\ IF call'[p].throw
                       THEN ret'[p].kind = "throw"
                            /\ ret'[p].tag = ERROR_CODE_INVALID_LIST_ID
                       ELSE ret'[p].kind = "return"
                            /\ ret'[p].tag \in {"false", "undefined", "null"}
                    /\ todolists' = todolists
            /\ (ret'[p].kind = "return"
                  /\ ret'[p].tag \notin {"false", "undefined", "null"})
                 => \E l \in todolists' :
                      l.id = call'[p].listID /\ l.title = call'[p].title]_vars

\* C14: setListTitle(listID, t) where t is the current title of the existing
\* list listID returns normally (no Conflict, no error) and leaves both tables
\* as they were, so any number of applications yields the same state.
C14_SameTitleRename ==
  [][\A p \in DOMAIN pc :
       (Ran(p, "setListTitle")
          /\ \E l \in todolists :
               l.id = call'[p].listID /\ l.title = call'[p].title)
         => /\ ret'[p].kind = "return" /\ ret'[p].tag = "Result"
            /\ todolists' = todolists /\ todos' = todos]_vars

\* setListTitle has renamed a list to the title it had, beside another list
\* of the same owner.
C14_Witness ==
  \E p \in DOMAIN pc :
    /\ Ended(p, "setListTitle") /\ ret[p].kind = "return"
    /\ \E l, o \in todolists :
         /\ l.id = call[p].listID /\ l.title = call[p].title
         /\ o.id # l.id /\ o.user_id = l.user_id

\* C15: addTodo(listID, title) for an existing list returns true and adds
\* exactly one todo, with a fresh id, that title, done = FALSE and that list,
\* changing no other todo and no list; for a listID no list has it returns
\* false (throws the InvalidListID error with options.throw) and adds nothing.
C15_AddTodo ==
  [][\A p \in DOMAIN pc :
       Ran(p, "addTodo")
         => /\ todolists' = todolists
            /\ IF \E l \in todolists : l.id = call'[p].listID
               THEN /\ ret'[p].kind = "return" /\ ret'[p].tag = "true"
                    /\ \E t \in todos' \ todos :
                         /\ todos' = todos \cup {t}
                         /\ \A o \in todos : o.id # t.id
                         /\ t.title = call'[p].title /\ t.done = FALSE
                         /\ t.todolist_id = call'[p].listID
               ELSE /\ IF call'[p].throw
                       THEN ret'[p].kind = "throw"
                            /\ ret'[p].tag = ERROR_CODE_INVALID_LIST_ID
                       ELSE ret'[p].kind = "return" /\ ret'[p].tag = "false"
                    /\ todos' = todos]_vars

\* addTodo has added a todo to a list beside a done todo of another list.
C15_Witness ==
  \E p \in DOMAIN pc :
    /\ Ended(p, "addTodo") /\ ret[p].tag = "true"
    /\ \E t, o \in todos :
         /\ t.todolist_id = call[p].listID /\ ~t.done
         /\ o.todolist_id # call[p].listID /\ o.done

\* C16 (as claimed): markAllDone(listID) returns true whenever a list with
\* that id exists, with or without todos, and then every todo of the list is
\* done; it reports an invalid list id only when no list has the id.
C16_MarkAllDone ==
  [][\A p \in DOMAIN pc :
       Ran(p, "markAllDone")
         => IF \E l \in todolists : l.id = call'[p].listID
            THEN /\ ret'[p].kind = "return" /\ ret'[p].tag = "true"
                 /\ \A t \in todos' : t.todolist_id = call'[p].listID => t.done
            ELSE IsNotFound(call'[p], ret'[p])]_vars

\* C17 (as claimed): withTransaction(callback), called with no transaction
\* open (as by findTodo, toggleDone and removeTodo of a store that has begun
\* none), issues BEGIN before the callback's statements, and ends with COMMIT
\* when the callback returns and with ROLLBACK when the callback throws.
C17_WithTransaction ==
  \A p \in DOMAIN pc :
    (Ended(p, "findTodo") \/ Ended(p, "toggleDone") \/ Ended(p, "removeTodo"))
      => /\ \E i \in DOMAIN log[p] :
              /\ log[p][i] = "BEGIN"
              /\ \A j \in (i + 1)..Len(log[p]) : log[p][j] # "BEGIN"
              /\ \E j \in (i + 1)..Len(log[p]) :
                   log[p][j] \in {"SELECT listExists", "SELECT todoExists"}
         /\ ret[p].kind = "return" => log[p][Len(log[p])] = "COMMIT"
         /\ ret[p].kind = "throw" => log[p][Len(log[p])] = "ROLLBACK"

\* The COMMIT and ROLLBACK statements among stmts.
Endings(stmts) == {i \in DOMAIN stmts : stmts[i] \in {"COMMIT", "ROLLBACK"}}

\* Request p takes a step that calls withTransaction.
CallsWithTransaction(p) ==
  /\ pc[p] = "paramTodoID" \/ (pc[p] = "handler" /\ call[p].op = "toggle")
  /\ pc'[p] # pc[p]

\* C18: nested use is flattened.  beginTransaction called on a client with a
\* transaction open issues no BEGIN; withTransaction called while the
\* request's transaction is open runs its callback in that transaction (on the
\* client that holds it) and neither commits nor rolls it back;
\* commitTransaction and rollbackTransaction called on a client with no
\* transaction open issue no statement but the probe and change nothing.
C18_NestedUseIsFlattened ==
  [][\A p \in DOMAIN pc :
       /\ (pc[p] = "idle" /\ pc'[p] # "idle"
             /\ IsInTransaction(pool, pool'.ran[p]))
            => \A i \in DOMAIN log'[p] : log'[p][i] # "BEGIN"
       /\ (CallsWithTransaction(p) /\ \E c \in Conns : IsInTransaction(pool, c))
            => /\ IsInTransaction(pool, pool'.ran[p])
               /\ IsInTransaction(pool', pool'.ran[p])
               /\ Endings(log'[p]) = Endings(log[p])
       /\ (pc[p] \in {"error", "responded"} /\ pc'[p] # pc[p]
             /\ ~IsInTransaction(pool, pool'.ran[p]))
            => /\ log'[p] = Append(log[p], "SELECT isTrans")
               /\ pool'.conn = pool.conn
               /\ todolists' = todolists /\ todos' = todos]_vars

\* C19: a request to a route with a :listID parameter has its transaction
\* open from the parameter handler until it is ended, and ends it exactly once:
\* with COMMIT when the response finished without an error, with ROLLBACK
\* when an error reached the error handler; once the "finish" handler has run
\* no client is left with the transaction open.
C19_RequestTransaction ==
  \A p \in DOMAIN pc :
    /\ pc[p] \in {"paramTodoID", "handler", "error"}
         => \E c \in Conns : IsInTransaction(pool, c)
    /\ pc[p] = "finished"
         => /\ \A c \in Conns : ~IsInTransaction(pool, c)
            /\ Cardinality(Endings(log[p])) = 1
            /\ \A i \in Endings(log[p]) :
                 log[p][i] = IF ret[p].kind = "throw" THEN "ROLLBACK" ELSE "COMMIT"

\* The place of a title in the alphabet when the case of its letters is
\* ignored.
Alphabetical(t) ==
  IF t = "eggs" THEN 1
  ELSE IF t = "Home" THEN 2
  ELSE IF t = "Milk" THEN 3
  ELSE 4

\* rows has every not-done row before every done row and, among the rows of
\* one group, the titles in case-insensitive order.
NotDoneFirstThenTitle(rows) ==
  \A i, j \in DOMAIN rows :
    i < j => /\ rows[i].done => rows[j].done
             /\ rows[i].done = rows[j].done
                  => Alphabetical(rows[i].title) <= Alphabetical(rows[j].title)

\* C20: the lists sortedTodoLists returns, and the todos sortedTodoList and
\* removeList return, come with every not-done one before every done one
\* and, within each group, in case-insensitive title order.
C20_SortedOnServer ==
  \A p \in DOMAIN pc :
    ((Ended(p, "sortedTodoLists") \/ Ended(p, "sortedTodoList")
        \/ Ended(p, "removeList")) /\ ret[p].kind = "return")
      => NotDoneFirstThenTitle(ret[p].rows)

\* sortedTodoList has returned "eggs" before "Milk", two todos of one group
\* whose ids and whose byte order are the other way round.
C20_Witness ==
  \E p \in DOMAIN pc :
    /\ Ended(p, "sortedTodoList")
    /\ Len(ret[p].rows) = 2
    /\ ret[p].rows[1].title = "eggs" /\ ret[p].rows[2].title = "Milk"
    /\ ret[p].rows[1].done = ret[p].rows[2].done
    /\ ret[p].rows[1].id > ret[p].rows[2].id

\* The title passes the rule of the forms: trimmed, it is not empty and at
\* most 100 characters long.
PassesTitleRule(raw) == Len(Trim(raw)) \in 1..MaxTitleLength

\* C21: the title a request hands to addList, addTodo or setListTitle is
\* the submitted title trimmed, not empty and at most 100 characters long; a
\* request whose title fails the rule ends with the validation messages and
\* leaves the tables as they were.
C21_TitleValidated ==
  [][\A p \in DOMAIN pc :
       /\ (Ran(p, "addList") \/ Ran(p, "addTodo") \/ Ran(p, "setListTitle"))
            => /\ call'[p].title = Trim(form[p])
               /\ Len(call'[p].title) >= 1
               /\ Len(call'[p].title) <= MaxTitleLength
       /\ (pc[p] = "idle" /\ pc'[p] = "done" /\ ~PassesTitleRule(form[p]))
            => /\ ret'[p].tag = "invalid" /\ ret'[p].rows # <<>>
               /\ todolists' = todolists /\ todos' = todos]_vars

\* addTodo has been given "Milk" by a request that submitted " Milk ".
C21_Witness ==
  \E p \in DOMAIN pc :
    /\ Ended(p, "addTodo")
    /\ form[p] = " Milk " /\ call[p].title = "Milk"
    /\ \E t \in todos : t.title = "Milk"

\* The todos of the list that are done, counted by position.
CountDoneOf(h) == Cardinality({i \in DOMAIN h.list : h.objs[h.list[i]].done})

\* C22: after any sequence of add, removeAt, shift, pop, markDoneAt,
\* markUndoneAt, markDone(title), markAllDone and markAllUndone, isDone() is
\* true exactly when the list holds at least one todo and every todo it holds
\* is done; an empty list is not done.
C22_IsDone ==
  /\ TodoListIsDone(heap) <=> (Len(heap.list) > 0
                                 /\ CountDoneOf(heap) = Len(heap.list))
  /\ heap.list = <<>> => ~TodoListIsDone(heap)

\* pop() has taken the last todo, a done one, out of the list, which is now
\* empty.
C22_Witness ==
  /\ heap.out.op = "pop" /\ heap.out.kind = "return"
  /\ heap.out.val \in DOMAIN heap.objs
  /\ heap.objs[heap.out.val].done
  /\ heap.list = <<>>

\* Whether the object compared is done: the flag of a Todo, isDone() of a
\* TodoList.
DoneOf(x) ==
  IF heap.kind = "Todo" THEN x.done
  ELSE Len(x.list) > 0 /\ \A i \in DOMAIN x.list : x.objs[x.list[i]].done

IsSorted(kind, s) ==
  \A i, j \in DOMAIN s : i < j => SortCallback(kind, s[i], s[j]) <= 0

\* The place of the element with this id in the array.
PlaceOf(s, id) == CHOOSE i \in DOMAIN s : s[i].id = id

\* Elements of `before` that compare equal are in the same order in `after`.
KeepsEqualInOrder(kind, before, after) ==
  \A i, j \in DOMAIN before :
    (i < j /\ SortCallback(kind, before[i], before[j]) = 0)
      => PlaceOf(after, before[i].id) < PlaceOf(after, before[j].id)

InRange(index) ==
  /\ ~index.half
  /\ index.whole \in 0..(Len(heap.list) - 1)

\* The call threw a ReferenceError and left the todos, their order and their
\* done flags as they were.
ThrewReferenceError ==
  /\ heap'.out.kind = "throw" /\ heap'.out.val = "ReferenceError"
  /\ heap'.list = heap.list /\ heap'.objs = heap.objs

\* C25: itemAt, removeAt, markDoneAt and markUndoneAt throw a ReferenceError
\* for every index that is not an integer in [0, size()), among them -1,
\* size() and every larger index, and then leave the list unchanged.
C25_IndexOutOfRange ==
  [][(/\ heap'.out.op \in {"itemAt", "removeAt", "markDoneAt", "markUndoneAt"}
      /\ ~InRange(heap'.out.arg))
       => ThrewReferenceError]_vars

\* removeAt(size()) has thrown on a list of three todos, the first of them
\* done.
C25_Witness ==
  /\ heap.out.op = "removeAt" /\ heap.out.kind = "throw"
  /\ heap.out.arg = [whole |-> MaxSize, half |-> FALSE]
  /\ Len(heap.list) = MaxSize
  /\ heap.objs[heap.list[1]].done

\* C26: every call of nextID returns an integer greater than every value it
\* returned before, and every Todo and TodoList created from a title gets an
\* id that no entity created before it has.
C26_FreshIDs ==
  [][/\ heap'.currentID # heap.currentID
          => /\ heap'.currentID \in Int
             /\ \A v \in heap.returned : heap'.currentID > v
     /\ (Len(heap'.made) > Len(heap.made)
           /\ heap'.made[Len(heap'.made)].from = "title")
          => \A i \in DOMAIN heap.made :
               heap.made[i].id # heap'.made[Len(heap'.made)].id]_vars

\* C27: every statement a request issues after its BEGIN and up to its COMMIT
\* or ROLLBACK, the isTrans probes and the COMMIT or ROLLBACK themselves
\* included, runs on the client its BEGIN ran on: a step the request takes
\* while its transaction is open runs on the client that holds the
\* transaction.
C27_OneClientPerTransaction ==
  [][\A p \in DOMAIN pc :
       (/\ pc[p] \in {"paramTodoID", "handler", "error", "responded"}
        /\ pc'[p] # pc[p]
        /\ \E c \in Conns : IsInTransaction(pool, c))
         => IsInTransaction(pool, pool'.ran[p])]_vars

\* C28: every error the store throws for a missing list or todo carries its
\* code at cause.code, where wrapIfExpected reads it, as the NonUniqueListTitle
\* error does; so when the handler around the call expects the code,
\* next() gets an Error with the handler's message for that code, which
\* list.removeList also flashes.
C28_NotFoundIsExpected ==
  [][\A p \in DOMAIN pc :
       (/\ pc[p] = "done" /\ pc'[p] = "error"
        /\ ret[p].tag \in DOMAIN ExpectedErrCodes(call[p].op))
         => /\ ErrorObject(ret[p].tag).cause = {[code |-> ret[p].tag]}
            /\ ret'[p].tag = ExpectedErrCodes(call[p].op)[ret[p].tag]
            /\ FlashExpectedErrs(call[p].op)
                 => ret'[p].rows = <<ret'[p].tag>>]_vars

\* C29: of two concurrent removeTodo calls for the same existing todo one
\* returns the todo as it was and the other ends with NotFound: a call that
\* ends returning undefined has raised the invalid-list-ID or invalid-todo-ID
\* error, so a call that has found the list and its todo and goes on to the
\* DELETE returns the todo.
C29_RemoveTodoOnce ==
  [][\A p \in DOMAIN pc :
       (/\ pc[p] = "stmt" /\ call[p].op = "removeTodo" /\ pc'[p] = "done"
        /\ \A t \in todos : t.id = call[p].todoID
                               => t.todolist_id = call[p].listID)
         => /\ ret'[p].kind = "return" /\ ret'[p].tag = "todo"
            /\ \E t \in todos \ todos' :
                 ret'[p].row = {TodoResult(t, todolists)}]_vars

\* C30: in every state every stored todo belongs to exactly one existing
\* list.  removeList leaves no todo of the list it removes, and an addTodo
\* that runs while the list is there inserts its todo (which a later
\* removeList of the list removes), while one that runs when the list is gone
\* inserts nothing and ends with the invalid-list-ID error.
C30_TodosBelongToLists ==
  /\ [](\A t \in todos :
          Cardinality({l \in todolists : l.id = t.todolist_id}) = 1)
  /\ [][\A p \in DOMAIN pc :
          /\ (pc[p] = "idle" /\ pc'[p] = "done" /\ call'[p].op = "removeList")
               => /\ \A l \in todolists' : l.id # call'[p].listID
                  /\ \A t \in todos' : t.todolist_id # call'[p].listID
          /\ (pc[p] = "idle" /\ pc'[p] = "done" /\ call'[p].op = "addTodo")
               => IF \E l \in todolists : l.id = call'[p].listID
                  THEN /\ ret'[p] = Returns("true")
                       /\ \E t \in todos' \ todos :
                            /\ t.todolist_id = call'[p].listID
                            /\ todos' = todos \cup {t}
                  ELSE /\ todos' = todos
                       /\ ret'[p] = ErrInvalidListID(call'[p].throw,
                                                     Returns("false"))]_vars

\* One request has added a todo to the list; the other has then removed the
\* list, and the todo with it.
C30_Witness ==
  \E p, q \in DOMAIN pc :
    /\ pc[p] = "done" /\ call[p].op = "addTodo" /\ ret[p] = Returns("true")
    /\ call[p].listID = RaceList
    /\ pc[q] = "done" /\ call[q].op = "removeList" /\ ret[q].tag = "list"
    /\ \E r \in DOMAIN ret[q].rows : ret[q].rows[r].title \in TodoTitles
    /\ \A l \in todolists : l.id # RaceList
    /\ \A t \in todos : t.todolist_id # RaceList

====
